---- MODULE Spec2Model ----
(***************************************************************************)
(* Model of the binary file editor: the Mapped File of src/bfile.c        *)
(* (bfile_init, bfile_open, bfile_truncate, bfile_close) and the line      *)
(* editor of src/unnamed/part_000: its commands (poke, copy, fill, hunt,   *)
(* peek, truncate), its command loop and parse_address of src/string.c,    *)
(* and the cursor and the hex keys of the visual editor of src/visual.c.   *)
(*                                                                         *)
(* The file's bytes live in one place, the page cache of the file, because *)
(* the mapping is MAP_SHARED: `disk' is that content and Len(disk) is the  *)
(* on-disk length.  `vma' is the kernel's view of the mapping the process  *)
(* owns (address, length, protection); fd, flags, data, st_size and prot   *)
(* are the fields of struct bfile.  Lengths are counted in bytes; the      *)
(* kernel's rounding of mapping lengths to whole pages is not modelled,    *)
(* the length of a mapping is the length of the last successful            *)
(* mmap/mremap.  Every system call is free to fail.                        *)
(***************************************************************************)
EXTENDS Integers, Sequences, FiniteSets, TLC

VARIABLES
    fsExists,   \* the name exists in the file system
    fsPerm,     \* access the process has to the file: "rw", "ro" or "none"
    disk,       \* content of the file, Len(disk) is the on-disk length
    fd,         \* f->fd
    flags,      \* f->flags
    data,       \* f->data
    name,       \* f->name: NULL or the name the file was opened by
    st_size,    \* f->st.st_size
    prot,       \* f->prot
    vma,        \* the live mapping: [addr, len, prot], NoVma when absent
    pc,         \* "init", "open", "failed", "closed" or "crashed"
    op,         \* the last operation: [name, arg, old], old the size before
                \* (for bfile_open the size asked for, 0 when none)
    ret,        \* what the last operation returned
    calls,      \* the system calls the last operation issued, in order
    hist,       \* observer: the latest successful truncates in a row
    obs,        \* observer: the range check of the last command, what it
                \* reported and how far the command reached into the file
    trace,      \* observer: the arguments of the last command, the
                \* entries it printed and, for a peek that follows a
                \* successful poke of one value, what was poked
    exit,       \* the exit status of the line editor, NoExit while it runs
    view        \* the visual editor's struct view: pos, grid.pos (gpos),
                \* grid.width and grid.pagesize

vars == <<fsExists, fsPerm, disk, fd, flags, data, name, st_size, prot, vma,
          pc, op, ret, calls, hist, obs, trace, exit, view>>

----------------------------------------------------------------------------
(* Bounds *)

MaxSize == 3

(* Program constants *)

BF_READONLY == 1
MAP_FAILED == -1
PROT_READ == 1
PROT_WRITE == 2
UINT8_MAX == 255
UINT16_MAX == 65535
U64_MOD == 1048576

BFE_SUCCESS == "0"
BFE_OPEN == "OPEN"
BFE_ACCESS == "ACCESS"
BFE_MAP == "MAP"
BFE_READONLY == "READONLY"
BFE_TRUNCATE == "TRUNCATE"
BFE_IO == "IO"
BFE_SYNC == "SYNC"
BFE_EMPTY == "EMPTY"
BFE_RESIZE == "RESIZE"

Bytes == {0, 1}
Sizes == 0..MaxSize
\* a mapping is placed at one of two addresses: mremap may move it or not
Addrs == {1, 2}
TheFd == 3
NULL == "NULL"
\* the one file name the editor is started with
TheName == "name"

NoVma == [addr |-> MAP_FAILED, len |-> 0, prot |-> 0]

Min(a, b) == IF a < b THEN a ELSE b
Max(a, b) == IF a < b THEN b ELSE a

NoObs == [kind |-> "", n |-> 0, addr |-> 0, len |-> 0, top |-> 0]
NoTrace == [args |-> <<>>, out |-> <<>>, poked |-> <<>>]
NoExit == -1
\* view_init, src/visual.c
NoView == [pos |-> 0, gpos |-> 0, width |-> 0, pagesize |-> 0]

Contents == UNION {[1..n -> Bytes] : n \in 0..MaxSize}

----------------------------------------------------------------------------
(* The operating system *)

\* faulty variant: a resize that rewrites the file instead of keeping its content
Resize_Zeroed(d, size) == [i \in 1..size |-> 0]

\* ftruncate(2): the content cut or extended with zero bytes to `size'
Resize(d, size) ==
    [i \in 1..size |-> IF i <= Len(d) THEN d[i] ELSE 0]

\* munmap(addr, len) on the mapping m: nothing when addr is not the start of
\* the mapping (EINVAL for MAP_FAILED); the first len bytes go away.
Munmap(m, addr, len) ==
    IF m = NoVma \/ addr # m.addr THEN m
    ELSE IF len >= m.len THEN NoVma
    ELSE [m EXCEPT !.len = m.len - len, !.addr = MAP_FAILED - 1]

\* mremap(addr, old, new, MREMAP_MAYMOVE) can succeed only on the start of
\* a live mapping that covers old bytes, and never to a length of 0.
MremapPossible(m, addr, old, new) ==
    m # NoVma /\ addr = m.addr /\ old <= m.len /\ new > 0

bfile_size(size) == size

IsReadonly(fl) == fl % 2 = BF_READONLY

HasWrite(p) == (p \div PROT_WRITE) % 2 = 1

----------------------------------------------------------------------------
Init ==
    /\ fsExists \in BOOLEAN
    /\ fsPerm \in {"rw", "ro", "none"}
    /\ disk \in Contents
    /\ (~fsExists => disk = <<>> /\ fsPerm = "none")
    /\ fd = -1
    /\ flags = 0
    /\ data = MAP_FAILED
    /\ name = NULL
    /\ st_size = 0
    /\ prot = 0
    /\ vma = NoVma
    /\ pc = "init"
    /\ op = [name |-> "bfile_init", arg |-> 0, old |-> 0]
    /\ ret = BFE_SUCCESS
    /\ calls = <<>>
    /\ hist = <<>>
    /\ obs = NoObs
    /\ trace = NoTrace
    /\ exit = NoExit
    /\ view = NoView

----------------------------------------------------------------------------
(* bfile_open, src/bfile.c *)

\* open(name, oflags, mode) without O_CREAT: the access the file grants
OpenSucceeds(exists, perm, rdwr) ==
    exists /\ (IF rdwr THEN perm = "rw" ELSE perm \in {"rw", "ro"})

\* The descriptor acquisition of bfile_open: which open(2) gave the
\* descriptor, the flags it leaves and whether the file is new.
\* createOk: open(O_CREAT | O_EXCL | O_RDWR) succeeds on a missing name.
AcquireFd(mode, exists, perm, createOk) ==
    LET flags0 == IF mode = 0 THEN BF_READONLY ELSE 0
    IN  IF OpenSucceeds(exists, perm, mode # 0)
        THEN [ok |-> TRUE, flags |-> flags0, new |-> FALSE,
              calls |-> <<"open">>]
        ELSE IF mode = 0
        THEN [ok |-> FALSE, flags |-> flags0, new |-> FALSE,
              calls |-> <<"open">>]
        ELSE IF OpenSucceeds(exists, perm, FALSE)
        THEN [ok |-> TRUE, flags |-> BF_READONLY, new |-> FALSE,
              calls |-> <<"open", "open">>]
        ELSE IF ~exists /\ createOk
        THEN [ok |-> TRUE, flags |-> flags0, new |-> TRUE,
              calls |-> <<"open", "open", "open">>]
        ELSE [ok |-> FALSE, flags |-> flags0, new |-> FALSE,
              calls |-> <<"open", "open", "open">>]

\* faulty variant: the mapping writable whatever the flags
ProtFor_Writable(fl) == PROT_READ + PROT_WRITE

\* `prot = PROT_READ; ... if (!(flags & BF_READONLY)) prot |= PROT_WRITE;'
ProtFor(fl) == IF IsReadonly(fl) THEN PROT_READ ELSE PROT_READ + PROT_WRITE

\* faulty variant: the file the call created is left behind
FailCleanup_Orphan(err, new, acquired) ==
    [unlink |-> FALSE, close |-> err # BFE_SUCCESS /\ acquired]

\* the fail: label, `if (err) { if (new && fd != -1) unlink(name);
\* if (fd != -1) close(fd); }': which of the two calls are issued
FailCleanup(err, new, acquired) ==
    [unlink |-> err # BFE_SUCCESS /\ new /\ acquired,
     close |-> err # BFE_SUCCESS /\ acquired]

bfile_open(mode, createOk, fstatOk, mmapOk, addr) ==
    LET a == AcquireFd(mode, fsExists, fsPerm, createOk)
        size == IF fstatOk THEN Len(disk) ELSE st_size
        prot1 == ProtFor(a.flags)
        err == IF ~a.ok THEN BFE_OPEN
               ELSE IF ~fstatOk THEN BFE_ACCESS
               ELSE IF size # 0 /\ ~mmapOk THEN BFE_MAP
               ELSE BFE_SUCCESS
        c == FailCleanup(err, a.new, a.ok)
        sys == a.calls
               \o (IF a.ok THEN <<"fstat">> ELSE <<>>)
               \o (IF a.ok /\ fstatOk /\ size # 0 THEN <<"mmap">> ELSE <<>>)
               \o (IF c.unlink THEN <<"unlink">> ELSE <<>>)
               \o (IF c.close THEN <<"close">> ELSE <<>>)
    IN  /\ pc = "init"
        /\ ret' = err
        /\ op' = [name |-> "bfile_open", arg |-> mode, old |-> 0]
        /\ calls' = sys
        /\ st_size' = IF a.ok THEN size ELSE st_size
        /\ fsExists' = IF a.new THEN ~c.unlink ELSE fsExists
        /\ fsPerm' = IF a.new
                     THEN (IF c.unlink THEN "none" ELSE "rw")
                     ELSE fsPerm
        /\ IF err = BFE_SUCCESS
           THEN /\ fd' = TheFd
                /\ flags' = a.flags
                /\ prot' = prot1
                /\ name' = TheName
                /\ data' = IF size # 0 THEN addr ELSE MAP_FAILED
                /\ vma' = IF size # 0
                          THEN [addr |-> addr, len |-> size, prot |-> prot1]
                          ELSE NoVma
                /\ pc' = "open"
           ELSE /\ UNCHANGED <<fd, flags, prot, data, name, vma>>
                /\ pc' = "failed"
        /\ UNCHANGED disk

Open ==
    /\ \E mode \in {0, 436}, createOk, fstatOk, mmapOk \in BOOLEAN,
          addr \in Addrs :
           bfile_open(mode, createOk, fstatOk, mmapOk, addr)
    /\ UNCHANGED <<hist, obs, trace, exit, view>>

----------------------------------------------------------------------------
(* bfile_open(f, name, mode, size), declared in src/fs.h and called by the *)
(* line editor's main with mode 0664.  Its body is not among the sources;  *)
(* it is modelled from its contract for a size above 0: the file is        *)
(* created exclusively and truncated to that size, or is empty when it is  *)
(* opened and truncated to that size.                                      *)

\* faulty variant: an existing file reused whatever it holds
Reusable_Always(d) == TRUE

\* an existing file may be reused only when it is empty
Reusable(d) == Len(d) = 0

bfile_open_size(size, createOk, fstatOk, mmapOk, addr) ==
    LET new == ~fsExists /\ createOk
        acquired == IF fsExists THEN OpenSucceeds(fsExists, fsPerm, TRUE)
                    ELSE createOk
        err == IF ~acquired THEN BFE_OPEN
               ELSE IF ~fstatOk THEN BFE_ACCESS
               ELSE IF ~new /\ ~Reusable(disk) THEN BFE_RESIZE
               ELSE IF ~mmapOk THEN BFE_MAP
               ELSE BFE_SUCCESS
        prot1 == PROT_READ + PROT_WRITE
    IN  /\ pc = "init"
        /\ size > 0
        /\ ret' = err
        /\ op' = [name |-> "bfile_open", arg |-> 436, old |-> size]
        /\ calls' = <<"open">>
                    \o (IF acquired THEN <<"fstat">> ELSE <<>>)
                    \o (IF err \in {BFE_MAP, BFE_SUCCESS}
                        THEN <<"ftruncate", "mmap">> ELSE <<>>)
                    \o (IF err # BFE_SUCCESS /\ new THEN <<"unlink">>
                        ELSE <<>>)
                    \o (IF err # BFE_SUCCESS /\ acquired THEN <<"close">>
                        ELSE <<>>)
        /\ IF err = BFE_SUCCESS
           THEN /\ disk' = Resize(disk, size)
                /\ fsExists' = TRUE
                /\ fsPerm' = "rw"
                /\ fd' = TheFd
                /\ flags' = 0
                /\ prot' = prot1
                /\ name' = TheName
                /\ st_size' = size
                /\ data' = addr
                /\ vma' = [addr |-> addr, len |-> size, prot |-> prot1]
                /\ pc' = "open"
           ELSE /\ UNCHANGED <<disk, fsExists, fsPerm, fd, flags, prot, name,
                               st_size, data, vma>>
                /\ pc' = "failed"

OpenSize ==
    /\ \E size \in 1..MaxSize, createOk, fstatOk, mmapOk \in BOOLEAN,
          addr \in Addrs :
           bfile_open_size(size, createOk, fstatOk, mmapOk, addr)
    /\ UNCHANGED <<hist, obs, trace, exit, view>>

----------------------------------------------------------------------------
(* bfile_truncate, src/bfile.c *)

\* faulty variant: the check for an unchanged size left out
SameSize_Never(cur, size) == FALSE

\* `if (bfile_size(f) == size) return 0;'
SameSize(cur, size) == cur = size

\* faulty variant: the mapping released before ftruncate's result is looked at
TruncateFailed_Unmapped(s) ==
    [s EXCEPT !.ret = BFE_TRUNCATE, !.data = MAP_FAILED, !.vma = NoVma,
              !.calls = <<"munmap", "ftruncate">>]

\* `if (ftruncate(f->fd, size)) return BFE_TRUNCATE;' from the state s
TruncateFailed(s) ==
    [s EXCEPT !.ret = BFE_TRUNCATE, !.calls = <<"ftruncate">>]

\* faulty variant: the metadata not queried again after the resize
StatSize_Stale(statOk, d, old) == old

\* `update_stat: if (fstat(f->fd, &f->st))': the size f->st holds afterwards;
\* a failed fstat leaves f->st as it was
StatSize(statOk, d, old) == IF statOk THEN Len(d) ELSE old

\* faulty variant: the mapping resized even when there is none
MapCall_Mremap(oldsize) == "mremap"

\* `oldsize ? mremap(f->data, bfile_size(f), size, MREMAP_MAYMOVE)
\*          : mmap(NULL, size, f->prot, MAP_SHARED, f->fd, 0)'
MapCall(oldsize) == IF oldsize # 0 THEN "mremap" ELSE "mmap"

\* The state bfile_truncate(f, size) leaves and the code it returns, for the
\* given outcomes of ftruncate, mremap/mmap, msync, the reverting mremap and
\* fstat; a1 and a2 are the addresses the kernel picks for the mappings.
TruncateResult(size, ftOk, mapOk, syncOk, revOk, statOk, a1, a2) ==
    LET same == [ret |-> BFE_SUCCESS, disk |-> disk, data |-> data,
                 st_size |-> st_size, flags |-> flags, vma |-> vma,
                 calls |-> <<>>]
        oldsize == bfile_size(st_size)
        disk1 == Resize(disk, size)
        \* the new mapping, when the kernel grants it
        canMap == IF oldsize # 0
                  THEN mapOk /\ MremapPossible(vma, data, oldsize, size)
                  ELSE mapOk
        map1 == [addr |-> a1, len |-> size,
                 prot |-> IF oldsize # 0 THEN vma.prot ELSE prot]
        mapCall == MapCall(oldsize)
        canRevert == revOk /\ MremapPossible(map1, a1, size, oldsize)
    IN  IF IsReadonly(flags)
        THEN [same EXCEPT !.ret = BFE_READONLY]
        ELSE IF SameSize(bfile_size(st_size), size)
        THEN same
        ELSE IF ~ftOk
        THEN TruncateFailed(same)
        ELSE IF size = 0
        THEN [ret |-> IF statOk THEN BFE_SUCCESS ELSE BFE_ACCESS,
              disk |-> disk1, data |-> MAP_FAILED,
              st_size |-> StatSize(statOk, disk1, st_size),
              flags |-> flags, vma |-> Munmap(vma, data, oldsize),
              calls |-> <<"ftruncate", "munmap", "fstat">>]
        ELSE IF ~canMap
        THEN [same EXCEPT !.ret = BFE_MAP, !.disk = disk1,
                          !.calls = <<"ftruncate", mapCall>>]
        ELSE IF ~syncOk
        THEN IF canRevert
             THEN [same EXCEPT !.ret = BFE_SYNC, !.disk = disk1,
                               !.data = a2,
                               !.vma = [map1 EXCEPT !.addr = a2,
                                                    !.len = oldsize],
                               !.calls = <<"ftruncate", mapCall, "msync",
                                           "mremap">>]
             ELSE [same EXCEPT !.ret = BFE_IO, !.disk = disk1,
                               !.data = a1, !.vma = map1,
                               !.flags = BF_READONLY,
                               !.calls = <<"ftruncate", mapCall, "msync",
                                           "mremap">>]
        ELSE [ret |-> IF statOk THEN BFE_SUCCESS ELSE BFE_ACCESS,
              disk |-> disk1, data |-> a1,
              st_size |-> StatSize(statOk, disk1, st_size),
              flags |-> flags, vma |-> map1,
              calls |-> <<"ftruncate", mapCall, "msync", "fstat">>]

bfile_truncate(size, ftOk, mapOk, syncOk, revOk, statOk, a1, a2) ==
    LET r == TruncateResult(size, ftOk, mapOk, syncOk, revOk, statOk, a1, a2)
    IN  /\ pc = "open"
        /\ ret' = r.ret
        /\ op' = [name |-> "bfile_truncate", arg |-> size,
                  old |-> bfile_size(st_size)]
        /\ calls' = r.calls
        /\ disk' = r.disk
        /\ data' = r.data
        /\ st_size' = r.st_size
        /\ flags' = r.flags
        /\ vma' = r.vma
        /\ UNCHANGED <<fsExists, fsPerm, fd, name, prot, pc>>

\* The outcomes of the system calls of one call, in the order ftruncate,
\* mremap/mmap, msync, reverting mremap, fstat: each call can fail, and the
\* calls after a failure that ends the function are not issued.
SysOutcomes ==
    { <<FALSE, TRUE, TRUE, TRUE, TRUE>>,
      <<TRUE, FALSE, TRUE, TRUE, TRUE>>,
      <<TRUE, TRUE, FALSE, TRUE, TRUE>>,
      <<TRUE, TRUE, FALSE, FALSE, TRUE>>,
      <<TRUE, TRUE, TRUE, TRUE, FALSE>>,
      <<TRUE, TRUE, TRUE, TRUE, TRUE>> }

Truncate ==
    /\ \E size \in Sizes, o \in SysOutcomes, a1, a2 \in Addrs :
           bfile_truncate(size, o[1], o[2], o[3], o[4], o[5], a1, a2)
    /\ UNCHANGED <<hist, obs, trace, exit, view>>

\* The same calls, observed: hist keeps, for the latest (at most three)
\* truncates that succeeded one after the other, the size asked for and the
\* content before the call; a truncate that fails starts the run anew.
Observed(h, size, before, r) ==
    LET h1 == Append(h, [size |-> size, before |-> before])
    IN  IF r # BFE_SUCCESS THEN <<>>
        ELSE IF Len(h1) > 3 THEN Tail(h1)
        ELSE h1

TruncateObserved ==
    \E size \in Sizes, o \in SysOutcomes, a1, a2 \in Addrs :
        /\ bfile_truncate(size, o[1], o[2], o[3], o[4], o[5], a1, a2)
        /\ hist' = Observed(hist, size, disk, ret')
        /\ UNCHANGED <<obs, trace, exit, view>>

----------------------------------------------------------------------------
(* bfile_close, src/bfile.c *)

bfile_close ==
    /\ pc \in {"init", "open", "closed"}
    /\ vma' = IF data # MAP_FAILED
              THEN Munmap(vma, data, bfile_size(st_size)) ELSE vma
    /\ calls' = (IF data # MAP_FAILED THEN <<"munmap">> ELSE <<>>)
                \o (IF fd # -1 THEN <<"close">> ELSE <<>>)
    /\ fd' = -1
    /\ data' = MAP_FAILED
    /\ name' = NULL
    /\ pc' = "closed"
    /\ op' = [name |-> "bfile_close", arg |-> 0, old |-> 0]
    /\ ret' = BFE_SUCCESS
    /\ UNCHANGED <<fsExists, fsPerm, disk, flags, st_size, prot>>

Close == bfile_close /\ UNCHANGED <<hist, obs, trace, exit, view>>

----------------------------------------------------------------------------
(* The line editor's mutating commands, src/unnamed/part_000.  A command's *)
(* arguments are its tokens after parse_address: a number, or Bad for a    *)
(* token parse_address rejects.                                            *)

Bad == -1

\* uint64_t arithmetic wraps; the width is scaled down to U64_MOD
Add64(a, b) == (a + b) % U64_MOD
Sub64(a, b) == (a - b + U64_MOD) % U64_MOD

\* The range check poke, fill and hunt make on [addr, addr + len) before
\* they touch the file, and the number of bytes they report:
\* `if (addr > size) { overflow = addr - size; ... behind file }
\*  if (addr + n > size) { overflow = addr + n - size; ... overflows by }'
RangeCheck(addr, len, size) ==
    IF addr > size
    THEN [kind |-> "behind", n |-> Sub64(addr, size)]
    ELSE IF Add64(addr, len) > size
    THEN [kind |-> "overflow", n |-> Sub64(Add64(addr, len), size)]
    ELSE [kind |-> "pass", n |-> 0]

\* faulty variant: every value taken for a single byte
byte_count_One(v) == 1

byte_count(v) ==
    IF v \div 65536 > UINT16_MAX THEN 8
    ELSE IF v > UINT16_MAX THEN 4
    ELSE IF v > UINT8_MAX THEN 2
    ELSE 1

\* faulty variant: the most significant byte first
StoreBytes_BigEndian(v, w) == [i \in 1..w |-> (v \div (256 ^ (w - i))) % 256]

\* the store *((uintN_t*)dest) = value on a little-endian machine
StoreBytes(v, w) == [i \in 1..w |-> (v \div (256 ^ (i - 1))) % 256]

RECURSIVE Encode(_)
\* the bytes of a value list, each value in its own width (fill_buf)
Encode(vals) ==
    IF vals = <<>> THEN <<>>
    ELSE StoreBytes(Head(vals), byte_count(Head(vals))) \o Encode(Tail(vals))

\* offset i of the file can be read / written through f->data
Readable(i) ==
    vma # NoVma /\ data = vma.addr /\ i >= 0 /\ i < vma.len /\ i < Len(disk)
Writable(i) == Readable(i) /\ HasWrite(vma.prot)

\* the content after bs was stored at offset off
Stored(d, off, bs) ==
    [i \in 1..Len(d) |->
        IF i - 1 >= off /\ i - 1 < off + Len(bs) THEN bs[i - off] ELSE d[i]]

\* the store of bs at off faults (SIGSEGV or SIGBUS)
Faults(off, bs) == \E j \in 1..Len(bs) : ~Writable(off + j - 1)

\* what a faulting store can leave: any of the bytes it could reach written
FaultOutcomes(d, off, bs) ==
    {x \in [1..Len(d) -> Bytes \cup {bs[j] : j \in 1..Len(bs)}] :
        \A i \in 1..Len(d) :
            \/ x[i] = d[i]
            \/ /\ i - 1 >= off /\ i - 1 < off + Len(bs)
               /\ Writable(i - 1)
               /\ x[i] = bs[i - off]}

\* dest is written with bs: the command returns 0, or the process dies
Write(cmd, off, bs) ==
    /\ op' = [name |-> cmd, arg |-> 0, old |-> 0]
    /\ calls' = <<>>
    /\ IF Faults(off, bs)
       THEN /\ disk' \in FaultOutcomes(disk, off, bs)
            /\ ret' = "SIGSEGV"
            /\ pc' = "crashed"
       ELSE /\ disk' = Stored(disk, off, bs)
            /\ ret' = "0"
            /\ pc' = pc
    /\ UNCHANGED <<fsExists, fsPerm, fd, flags, data, name, st_size, prot,
                   vma>>

\* the command prints msg and returns 1
Refuse(cmd, msg) ==
    /\ op' = [name |-> cmd, arg |-> 0, old |-> 0]
    /\ calls' = <<>>
    /\ ret' = msg
    /\ UNCHANGED <<fsExists, fsPerm, disk, fd, flags, data, name, st_size,
                   prot, vma, pc>>

RECURSIVE SumWidths(_)
SumWidths(vals) ==
    IF vals = <<>> THEN 0
    ELSE byte_count(Head(vals)) + SumWidths(Tail(vals))

\* index of the first token parse_address rejects, 0 when there is none
FirstBad(args) ==
    IF \E i \in 1..Len(args) : args[i] = Bad
    THEN CHOOSE i \in 1..Len(args) :
            args[i] = Bad /\ \A j \in 1..(i - 1) : args[j] # Bad
    ELSE 0

\* the outcome of poke's checks: "" when they all pass
PokeCheck(args) ==
    LET b == FirstBad(args)
        n == SumWidths(SubSeq(args, 2, Len(args)))
        size == bfile_size(st_size)
    IN  IF IsReadonly(flags) THEN "READONLY"
        ELSE IF b = 1 THEN "Bad address"
        ELSE IF b > 1 THEN "Bad value"
        ELSE IF Len(args) = 0 THEN "Missing address"
        ELSE IF Len(args) = 1 THEN "Missing data"
        ELSE IF RangeCheck(args[1], n, size).kind = "behind"
        THEN "behind file"
        ELSE IF RangeCheck(args[1], n, size).kind = "overflow"
        THEN "overflows"
        ELSE ""

\* faulty variant: one pass, each value stored as soon as it is parsed
poke_Eager(args) ==
    /\ pc = "open"
    /\ IF PokeCheck(args) = "Bad value"
       THEN /\ disk' = Stored(disk, args[1],
                              Encode(SubSeq(args, 2, FirstBad(args) - 1)))
            /\ op' = [name |-> "poke", arg |-> 0, old |-> 0]
            /\ calls' = <<>>
            /\ ret' = "Bad value"
            /\ UNCHANGED <<fsExists, fsPerm, fd, flags, data, name, st_size,
                           prot, vma, pc>>
       ELSE IF PokeCheck(args) # ""
       THEN Refuse("poke", PokeCheck(args))
       ELSE Write("poke", args[1], Encode(SubSeq(args, 2, Len(args))))

\* two passes over the tokens: the first parses and checks them all, the
\* second stores the values
poke(args) ==
    /\ pc = "open"
    /\ IF PokeCheck(args) # ""
       THEN Refuse("poke", PokeCheck(args))
       ELSE Write("poke", args[1], Encode(SubSeq(args, 2, Len(args))))

\* the outcome of copy's checks: "" when they all pass
CopyCheck(args) ==
    LET b == FirstBad(SubSeq(args, 1, Min(Len(args), 3)))
        size == bfile_size(st_size)
    IN  IF b = 1 THEN "Bad destination"
        ELSE IF b = 2 THEN "Bad source"
        ELSE IF b = 3 THEN "Bad length"
        ELSE IF Len(args) > 3 THEN "Too many arguments"
        ELSE IF Len(args) = 2 THEN "Missing length"
        ELSE IF Len(args) = 1 THEN "Missing source"
        ELSE IF Len(args) = 0 THEN "Missing destination"
        ELSE IF Add64(args[2], args[3]) > size THEN "Source overflows"
        ELSE IF Add64(args[1], args[3]) > size THEN "Destination overflows"
        ELSE ""

\* No store reaches past the end of the file: a store longer than the file
\* faults, and its first Len(disk) + 1 bytes decide what it leaves.
Cap(length) == Min(length, Len(disk) + 1)

\* the bytes memmove reads: length bytes from offset from
SourceBytes(from, length) == [j \in 1..Cap(length) |-> disk[from + j]]

copy(args) ==
    /\ pc = "open"
    /\ IF CopyCheck(args) # ""
       THEN Refuse("copy", CopyCheck(args))
       ELSE IF \A j \in 1..Cap(args[3]) : Readable(args[2] + j - 1)
       THEN Write("copy", args[1], SourceBytes(args[2], args[3]))
       ELSE /\ op' = [name |-> "copy", arg |-> 0, old |-> 0]
            /\ calls' = <<>>
            /\ ret' = "SIGSEGV"
            /\ pc' = "crashed"
            /\ UNCHANGED <<fsExists, fsPerm, disk, fd, flags, data, name,
                           st_size, prot, vma>>

\* faulty variant: the range checked before the multiple
FillCheck_RangeFirst(args) ==
    LET b == FirstBad(args)
        n == SumWidths(SubSeq(args, 3, Len(args)))
        size == bfile_size(st_size)
    IN  IF b = 1 THEN "Bad address"
        ELSE IF b = 2 THEN "Bad length"
        ELSE IF b > 2 THEN "Bad value"
        ELSE IF Len(args) = 2 THEN "Missing data"
        ELSE IF Len(args) = 1 THEN "Missing length"
        ELSE IF Len(args) = 0 THEN "Missing address"
        ELSE IF RangeCheck(args[1], args[2], size).kind = "behind"
        THEN "behind file"
        ELSE IF RangeCheck(args[1], args[2], size).kind = "overflow"
        THEN "overflows"
        ELSE IF args[2] % n # 0 THEN "Block is not multiple of length"
        ELSE ""

\* the outcome of fill's checks: "" when they all pass
FillCheck(args) ==
    LET b == FirstBad(args)
        n == SumWidths(SubSeq(args, 3, Len(args)))
        size == bfile_size(st_size)
    IN  IF b = 1 THEN "Bad address"
        ELSE IF b = 2 THEN "Bad length"
        ELSE IF b > 2 THEN "Bad value"
        ELSE IF Len(args) = 2 THEN "Missing data"
        ELSE IF Len(args) = 1 THEN "Missing length"
        ELSE IF Len(args) = 0 THEN "Missing address"
        ELSE IF args[2] % n # 0 THEN "Block is not multiple of length"
        ELSE IF RangeCheck(args[1], args[2], size).kind = "behind"
        THEN "behind file"
        ELSE IF RangeCheck(args[1], args[2], size).kind = "overflow"
        THEN "overflows"
        ELSE ""

\* faulty variant: the first byte of fill_buf written length times
Repeated_FirstByte(pat, length) == [j \in 1..Cap(length) |-> pat[1]]

\* fill_buf repeated until length bytes are written
Repeated(pat, length) ==
    [j \in 1..Cap(length) |-> pat[((j - 1) % Len(pat)) + 1]]

fill(args) ==
    /\ pc = "open"
    /\ IF FillCheck(args) # ""
       THEN Refuse("fill", FillCheck(args))
       ELSE Write("fill", args[1],
                  Repeated(Encode(SubSeq(args, 3, Len(args))), args[2]))

\* the process dies in the command: a load or store outside the mapping
Crash(cmd) ==
    /\ op' = [name |-> cmd, arg |-> 0, old |-> 0]
    /\ calls' = <<>>
    /\ ret' = "SIGSEGV"
    /\ pc' = "crashed"
    /\ UNCHANGED <<fsExists, fsPerm, disk, fd, flags, data, name, st_size,
                   prot, vma>>

\* hunt's first token is `addr' or `addr,length': h holds the one or two
\* numbers (no number when the command has no token at all).  Without a
\* length the rest of the file is searched.
HuntLength(h, size) ==
    IF Len(h) = 2 THEN h[2]
    ELSE IF h[1] > size THEN 0
    ELSE size - h[1]

\* the outcome of hunt's checks: "" when they all pass
HuntCheck(h, vals) ==
    LET size == bfile_size(st_size)
    IN  IF Len(h) = 0 THEN "Missing address"
        ELSE IF h[1] = Bad THEN "Bad address"
        ELSE IF Len(h) = 2 /\ h[2] = Bad THEN "Bad length"
        ELSE IF FirstBad(vals) # 0 THEN "Bad value"
        ELSE IF vals = <<>> THEN "Missing data"
        ELSE IF RangeCheck(h[1], HuntLength(h, size), size).kind = "behind"
        THEN "behind file"
        ELSE IF RangeCheck(h[1], HuntLength(h, size), size).kind = "overflow"
        THEN "end marker overflows"
        ELSE ""

\* pat stands at offset p of the bytes that can be read
Matches(p, pat) ==
    \A j \in 1..Len(pat) : Readable(p + j - 1) /\ disk[p + j] = pat[j]

\* memmem(data + addr, length, pat, n): the offsets in the range where pat
\* stands; the search reads on from addr until it finds the first of them
Found(addr, length, pat) ==
    {p \in addr..(addr + Cap(length) - Len(pat)) : Matches(p, pat)}

\* faulty variant: the last occurrence
First_Last(S) == CHOOSE p \in S : \A q \in S : p >= q

First(S) == CHOOSE p \in S : \A q \in S : p <= q

\* hunt never looks into the file: `if (addr + n > size) goto not_found',
\* or a pattern longer than the range
HuntSkips(addr, length, n, size) == Add64(addr, n) > size \/ n > length

hunt(h, vals) ==
    LET size == bfile_size(st_size)
        length == HuntLength(h, size)
        pat == Encode(vals)
    IN  /\ pc = "open"
        /\ IF HuntCheck(h, vals) # ""
           THEN Refuse("hunt", HuntCheck(h, vals))
           ELSE IF HuntSkips(h[1], length, Len(pat), size)
           THEN Refuse("hunt", "not found")
           ELSE IF Found(h[1], length, pat) # {}
           THEN /\ op' = [name |-> "hunt",
                          arg |-> First(Found(h[1], length, pat)),
                          old |-> 0]
                /\ calls' = <<>>
                /\ ret' = "0"
                /\ UNCHANGED <<fsExists, fsPerm, disk, fd, flags, data, name,
                               st_size, prot, vma, pc>>
           ELSE IF \A j \in 1..Cap(length) : Readable(h[1] + j - 1)
           THEN Refuse("hunt", "not found")
           ELSE Crash("hunt")

\* peek: `m start [length]', the default length and the largest one
PEEK_DEFAULT == 16
PEEK_MAX == 256

\* what bfile_peek prints in place of a byte behind the end of the file
Gap == -1

\* the outcome of peek's checks: "" when they all pass
PeekCheck(args) ==
    LET b == FirstBad(SubSeq(args, 1, Min(Len(args), 2)))
    IN  IF b = 1 THEN "Bad start address"
        ELSE IF b = 2 THEN "Bad length"
        ELSE IF Len(args) >= 2 /\ (args[2] = 0 \/ args[2] > PEEK_MAX)
        THEN "Length not in range"
        ELSE IF Len(args) > 2 THEN "Unexpected garbage"
        ELSE IF Len(args) = 0 THEN "Missing start address"
        ELSE ""

PeekLength(args) == IF Len(args) >= 2 THEN args[2] ELSE PEEK_DEFAULT

\* faulty variant: the entries behind the end of the file left out
PeekEntries_Short(start, length, size) ==
    [i \in 1..Min(length, IF start < size THEN size - start ELSE 0) |->
        disk[start + i]]

\* bfile_peek: `for (; length && start < size; ++start, --length)' prints
\* map[start], `for (; length; ++start, --length)' prints the gap marker
PeekEntries(start, length, size) ==
    [i \in 1..length |->
        IF start + i - 1 < size THEN disk[start + i] ELSE Gap]

\* the offsets bfile_peek loads from
PeekReads(start, length, size) ==
    {i \in start..(start + length - 1) : i < size}

\* every load of bfile_peek hits the mapping
PeekLoads(args) ==
    \A i \in PeekReads(args[1], PeekLength(args), bfile_size(st_size)) :
        Readable(i)

\* the entries peek prints: none when it refuses or dies
PeekOut(args) ==
    IF PeekCheck(args) = "" /\ PeekLoads(args)
    THEN PeekEntries(args[1], PeekLength(args), bfile_size(st_size))
    ELSE <<>>

\* peek stores nothing
peek(args) ==
    /\ pc = "open"
    /\ IF PeekCheck(args) # ""
       THEN Refuse("peek", PeekCheck(args))
       ELSE IF PeekLoads(args)
       THEN /\ op' = [name |-> "peek", arg |-> 0, old |-> 0]
            /\ calls' = <<>>
            /\ ret' = "0"
            /\ UNCHANGED <<fsExists, fsPerm, disk, fd, flags, data, name,
                           st_size, prot, vma, pc>>
       ELSE Crash("peek")

ArgSeqs(S, lo, hi) == UNION {[1..n -> S] : n \in lo..hi}

\* the addresses and lengths typed: in the file, at its end, behind it, one
\* that makes the sum wrap, and a token that is no number
AddrToks == {0, 1, MaxSize, U64_MOD - 1, Bad}

\* the value lists typed: values of one and two bytes, and a bad token
ValueLists ==
    { <<>>, <<0>>, <<1>>, <<256>>, <<Bad>>, <<1, 0>>, <<0, 1>>, <<256, 1>>,
      <<1, Bad>> }

Poke ==
    /\ \E a \in ArgSeqs(AddrToks, 0, 1), v \in ValueLists :
           (Len(a) = 1 \/ v = <<>>) /\ poke(a \o v)
    /\ UNCHANGED <<hist, obs, trace, exit, view>>

Copy ==
    /\ \E a \in ArgSeqs(AddrToks, 0, 3) \cup {<<0, 0, 0, 0>>} : copy(a)
    /\ UNCHANGED <<hist, obs, trace, exit, view>>

Fill ==
    /\ \E a \in ArgSeqs(AddrToks, 0, 2), v \in ValueLists :
           (Len(a) = 2 \/ v = <<>>) /\ fill(a \o v)
    /\ UNCHANGED <<hist, obs, trace, exit, view>>

\* The same commands, observed: obs keeps the range the command checked,
\* the outcome of the check with the number of bytes it reported, and top,
\* the end of the highest range of offsets the command went on to load or
\* store (0 when it touched nothing).
Observation(r, addr, len, top) ==
    [kind |-> r.kind, n |-> r.n, addr |-> addr, len |-> len,
     top |-> IF r.kind = "pass" /\ len > 0 THEN top ELSE 0]

PokeObs(args) ==
    LET n == SumWidths(SubSeq(args, 2, Len(args)))
    IN  IF PokeCheck(args) \notin {"", "behind file", "overflows"}
        THEN NoObs
        ELSE Observation(RangeCheck(args[1], n, bfile_size(st_size)),
                         args[1], n, args[1] + n)

FillObs(args) ==
    IF FillCheck(args) \notin {"", "behind file", "overflows"}
    THEN NoObs
    ELSE Observation(RangeCheck(args[1], args[2], bfile_size(st_size)),
                     args[1], args[2], args[1] + args[2])

CopyObs(args) ==
    LET size == bfile_size(st_size)
        c == CopyCheck(args)
    IN  IF c \notin {"", "Source overflows", "Destination overflows"}
        THEN NoObs
        ELSE Observation(
                 IF c = "Source overflows"
                 THEN [kind |-> "overflow",
                       n |-> Sub64(Add64(args[2], args[3]), size)]
                 ELSE IF c = "Destination overflows"
                 THEN [kind |-> "overflow",
                       n |-> Sub64(Add64(args[1], args[3]), size)]
                 ELSE [kind |-> "pass", n |-> 0],
                 args[1], args[3], Max(args[1], args[2]) + args[3])

HuntObs(h, vals) ==
    LET size == bfile_size(st_size)
        length == HuntLength(h, size)
        pat == Encode(vals)
    IN  IF HuntCheck(h, vals) \notin {"", "behind file",
                                      "end marker overflows"}
        THEN NoObs
        ELSE Observation(RangeCheck(h[1], length, size), h[1], length,
                 IF HuntSkips(h[1], length, Len(pat), size) THEN 0
                 ELSE IF Found(h[1], length, pat) # {}
                 THEN First(Found(h[1], length, pat)) + Len(pat)
                 ELSE h[1] + length)

PokeObserved ==
    \E a \in ArgSeqs(AddrToks, 0, 1), v \in ValueLists :
        /\ Len(a) = 1 \/ v = <<>>
        /\ poke(a \o v)
        /\ obs' = PokeObs(a \o v)
        /\ UNCHANGED <<hist, trace, exit, view>>

CopyObserved ==
    \E a \in ArgSeqs(AddrToks, 0, 3) \cup {<<0, 0, 0, 0>>} :
        /\ copy(a)
        /\ obs' = CopyObs(a)
        /\ UNCHANGED <<hist, trace, exit, view>>

FillObserved ==
    \E a \in ArgSeqs(AddrToks, 0, 2), v \in ValueLists :
        /\ Len(a) = 2 \/ v = <<>>
        /\ fill(a \o v)
        /\ obs' = FillObs(a \o v)
        /\ UNCHANGED <<hist, trace, exit, view>>

Hunt ==
    \E h \in ArgSeqs(AddrToks, 0, 2), v \in ValueLists :
        /\ Len(h) >= 1 \/ v = <<>>
        /\ hunt(h, v)
        /\ obs' = HuntObs(h, v)
        /\ UNCHANGED <<hist, trace, exit, view>>

\* The same commands, traced: trace keeps the arguments typed and the
\* entries printed.  A value of four bytes is typed as well.
TracedLists == ValueLists \cup {<<65536>>}

PokeTraced ==
    \E a \in ArgSeqs(AddrToks, 0, 1), v \in TracedLists :
        /\ Len(a) = 1 \/ v = <<>>
        /\ poke(a \o v)
        /\ trace' = [args |-> a \o v, out |-> <<>>, poked |-> <<>>]
        /\ UNCHANGED <<hist, obs, exit, view>>

CopyTraced ==
    \E a \in ArgSeqs(AddrToks \cup {2}, 0, 3) \cup {<<0, 0, 0, 0>>} :
        /\ copy(a)
        /\ trace' = [args |-> a, out |-> <<>>, poked |-> <<>>]
        /\ UNCHANGED <<hist, obs, exit, view>>

\* the addresses and lengths typed to fill and hunt: in the file, at its
\* end, and a token that is no number
BlockToks == {0, 1, 2, MaxSize, Bad}

\* the patterns and needles typed: none, one byte, two bytes as one value and
\* as two, and a bad token
BlockLists == {<<>>, <<1>>, <<256>>, <<1, 0>>, <<Bad>>}

FillTraced ==
    \E a \in ArgSeqs(BlockToks, 0, 2), v \in BlockLists :
        /\ Len(a) = 2 \/ v = <<>>
        /\ fill(a \o v)
        /\ trace' = [args |-> a \o v, out |-> <<>>, poked |-> <<>>]
        /\ UNCHANGED <<hist, obs, exit, view>>

HuntTraced ==
    \E h \in ArgSeqs(BlockToks, 0, 2), v \in BlockLists :
        /\ Len(h) >= 1 \/ v = <<>>
        /\ hunt(h, v)
        /\ trace' = [args |-> <<h, v>>, out |-> <<>>, poked |-> <<>>]
        /\ UNCHANGED <<hist, obs, exit, view>>

----------------------------------------------------------------------------
(* parse_address, src/string.c, on a string of characters *)

base_str ==
    <<"0", "1", "2", "3", "4", "5", "6", "7", "8", "9",
      "A", "B", "C", "D", "E", "F">>

\* toupper, for the letters that are digits; no other letter becomes one
toupper(c) ==
    CASE c = "a" -> "A" [] c = "b" -> "B" [] c = "c" -> "C"
      [] c = "d" -> "D" [] c = "e" -> "E" [] c = "f" -> "F"
      [] OTHER -> c

\* faulty variant: the character looked up as it is typed
DigitOf_AsTyped(c) ==
    IF \E k \in 1..16 : base_str[k] = c
    THEN (CHOOSE k \in 1..16 : base_str[k] = c) - 1
    ELSE 16

\* `pos - base_str' of strchr(base_str, toupper(c)); 16 when there is no pos
DigitOf(c) ==
    IF \E k \in 1..16 : base_str[k] = toupper(c)
    THEN (CHOOSE k \in 1..16 : base_str[k] = toupper(c)) - 1
    ELSE 16

\* the loop over the digits: Bad at the first character that is no digit of
\* the base, the value (which wraps) at the end of the string
RECURSIVE ParseDigits(_, _, _)
ParseDigits(ptr, base, v) ==
    IF ptr = <<>> THEN v
    ELSE IF DigitOf(Head(ptr)) >= base THEN Bad
    ELSE ParseDigits(Tail(ptr), base,
                     (v * base + DigitOf(Head(ptr))) % U64_MOD)

\* the address the string denotes, Bad when parse_address returns 1
parse_address(str) ==
    IF str = <<>> THEN Bad
    ELSE LET c == Head(str)
             base == IF c = "%" THEN 2
                     ELSE IF c = "o" THEN 8
                     ELSE IF c = "$" THEN 16
                     ELSE 10
         IN  ParseDigits(IF c \in {"%", "o", "$"} THEN Tail(str) ELSE str,
                         base, 0)

\* the call parse_address(str, &address, &mask): what it returns and what
\* address holds afterwards; `*address = v' is its last statement
ParseResult(str, address) ==
    IF parse_address(str) = Bad
    THEN [ret |-> "1", address |-> address]
    ELSE [ret |-> "0", address |-> parse_address(str)]

\* the longest literal typed, and the characters it is typed from: digits of
\* every base in both cases, a letter that is no digit, and the prefixes
MaxLen == 2
Alphabet == {"1", "2", "8", "a", "F", "g", "%", "o", "$"}

\* the literals: every string up to MaxLen, some longer ones, and one whose
\* value wraps
Literals ==
    ArgSeqs(Alphabet, 0, MaxLen)
        \cup { <<"$", "a", "F">>, <<"%", "1", "2">>, <<"o", "1", "8">>,
               <<"1", "2", "8">>, <<"$", "F", "F", "F", "F", "F", "F">> }

\* one call of parse_address, before the file is opened: trace keeps the
\* string, what address held before, and <<what address holds>> after
ParseAddress ==
    \E str \in Literals, address \in {0, 5} :
        /\ pc = "init"
        /\ trace = NoTrace
        /\ ret' = ParseResult(str, address).ret
        /\ op' = [name |-> "parse_address", arg |-> 0, old |-> 0]
        /\ trace' = [args |-> str,
                     out |-> <<ParseResult(str, address).address>>,
                     poked |-> <<address>>]
        /\ UNCHANGED <<fsExists, fsPerm, disk, fd, flags, data, name,
                       st_size, prot, vma, pc, calls, hist, obs, exit,
                       view>>

\* `for (arg = start; isspace(*arg); ++arg)'
RECURSIVE SkipSpaces(_)
SkipSpaces(str) ==
    IF str # <<>> /\ Head(str) = " " THEN SkipSpaces(Tail(str)) ELSE str

----------------------------------------------------------------------------
(* The command loop of the line editor, src/unnamed/part_000 *)

\* do_truncate: the whole rest of the line goes to parse_address
do_truncate(line, ftOk, mapOk, syncOk, revOk, statOk, a1, a2) ==
    LET size == parse_address(SkipSpaces(line))
    IN  IF size = Bad
        THEN pc = "open" /\ Refuse("do_truncate", "Bad filesize")
        ELSE bfile_truncate(size, ftOk, mapOk, syncOk, revOk, statOk, a1, a2)

\* the lines typed after `t': sizes in three bases, sizes followed by
\* garbage, garbage alone and nothing
TruncateLines ==
    { <<>>, <<"0">>, <<"1">>, <<"%", "1", "0">>, <<"$", "3">>,
      <<"w", "u", "t">>, <<"2", " ", "w", "u", "t">>,
      <<"1", "0", " ", "w", "u", "t">> }

DoTruncate ==
    \E line \in TruncateLines, o \in SysOutcomes, a1, a2 \in Addrs :
        /\ do_truncate(line, o[1], o[2], o[3], o[4], o[5], a1, a2)
        /\ trace' = [args |-> line, out |-> <<>>, poked |-> <<>>]
        /\ UNCHANGED <<hist, obs, exit, view>>

\* `t' in the loop: a size, and a line that is none
TruncateCmd ==
    /\ \E line \in {<<"0">>, <<"1">>, <<"w", "u", "t">>},
          o \in SysOutcomes, a1, a2 \in Addrs :
           do_truncate(line, o[1], o[2], o[3], o[4], o[5], a1, a2)
    /\ UNCHANGED <<hist, obs, trace, exit, view>>

\* main up to the loop: the usage error, or the file opened with or without
\* a size; a failed open ends the process with 1
main_open(argc, size, createOk, fstatOk, mmapOk, addr) ==
    /\ pc = "init"
    /\ exit = NoExit
    /\ IF argc \notin {2, 3} \/ (argc = 3 /\ size \in {Bad, 0})
       THEN /\ exit' = 1
            /\ op' = [name |-> "usage", arg |-> argc, old |-> 0]
            /\ UNCHANGED <<fsExists, fsPerm, disk, fd, flags, data, name,
                           st_size, prot, vma, pc, ret, calls>>
       ELSE /\ IF argc = 2
               THEN bfile_open(436, createOk, fstatOk, mmapOk, addr)
               ELSE bfile_open_size(size, createOk, fstatOk, mmapOk, addr)
            /\ exit' = IF ret' # BFE_SUCCESS THEN 1 ELSE NoExit

MainOpen ==
    /\ \E argc \in 1..4, size \in {Bad, 0, 1, MaxSize},
          createOk, fstatOk, mmapOk \in BOOLEAN, addr \in Addrs :
           main_open(argc, size, createOk, fstatOk, mmapOk, addr)
    /\ UNCHANGED <<hist, obs, trace, view>>

\* `?': help returns -1 for a topic it does not know
Help ==
    /\ pc = "open"
    /\ \E topic \in {"", "a", "x"} :
           Refuse("help", IF topic = "x" THEN "-1" ELSE "0")
    /\ UNCHANGED <<hist, obs, trace, exit, view>>

\* `g': bfile_showinfo prints the name and the size
ShowInfo ==
    /\ pc = "open"
    /\ Refuse("bfile_showinfo", "0")
    /\ UNCHANGED <<hist, obs, trace, exit, view>>

\* any other first character: parse returns -1 and main prints `? line'
Unknown ==
    /\ pc = "open"
    /\ Refuse("parse", "-1")
    /\ UNCHANGED <<hist, obs, trace, exit, view>>

\* the numbers and the value lists typed in the loop
LineToks == {0, 1, Bad}
LineLists == {<<>>, <<1>>}

PokeCmd ==
    /\ \E a \in ArgSeqs(LineToks, 0, 1), v \in LineLists :
           (Len(a) = 1 \/ v = <<>>) /\ poke(a \o v)
    /\ UNCHANGED <<hist, obs, trace, exit, view>>

CopyCmd ==
    /\ \E a \in ArgSeqs(LineToks, 0, 3) : copy(a)
    /\ UNCHANGED <<hist, obs, trace, exit, view>>

FillCmd ==
    /\ \E a \in ArgSeqs(LineToks, 0, 2), v \in LineLists :
           (Len(a) = 2 \/ v = <<>>) /\ fill(a \o v)
    /\ UNCHANGED <<hist, obs, trace, exit, view>>

HuntCmd ==
    /\ \E h \in ArgSeqs(LineToks, 0, 2), v \in LineLists :
           (Len(h) >= 1 \/ v = <<>>) /\ hunt(h, v)
    /\ UNCHANGED <<hist, obs, trace, exit, view>>

PeekCmd ==
    /\ \E a \in ArgSeqs(LineToks, 0, 2) : peek(a)
    /\ UNCHANGED <<hist, obs, trace, exit, view>>

\* the line `q', or the end of the input: the loop is left, the file is
\* closed and main returns 0
Quit ==
    /\ pc = "open"
    /\ bfile_close
    /\ exit' = 0
    /\ UNCHANGED <<hist, obs, trace, view>>

----------------------------------------------------------------------------
(* The visual editor, src/visual.c.  It opens the file with the bfile_open *)
(* of src/bfile.c and never resizes it.  view_draw recomputes the grid     *)
(* from the terminal size kept since the last resize, so the grid changes  *)
(* only in view_resize.                                                    *)

\* `unsigned' arithmetic wraps; the width is scaled down
UNSIGNED_MOD == 65536

\* the terminals: <<cols, lines>>, one too small for a grid
Terminals == {<<0, 0>>, <<2, 1>>, <<5, 1>>, <<5, 2>>}

\* view_draw_data: the grid of a terminal
Grid(cols, lines) ==
    IF lines < 1 \/ cols < 2
    THEN [width |-> 0, pagesize |-> 0]
    ELSE [width |-> (cols + 1) \div 3,
          pagesize |-> ((cols + 1) \div 3) * lines]

\* `size_t max = bfile_size(&file) - 1; if (pos > max) pos = max;'
view_goto(v, pos, size) == [v EXCEPT !.pos = Min(pos, Sub64(size, 1))]

view_move(v, pos, size) ==
    IF pos < 0
    THEN IF -pos > v.pos THEN v ELSE view_goto(v, v.pos + pos, size)
    ELSE IF pos >= Sub64(size, v.pos) THEN v
    ELSE view_goto(v, Add64(v.pos, pos), size)

\* `if (v->pos + gpos > bfile_size(&file) - 1)
\*      gpos = bfile_size(&file) - v->pos - 1;'
CursLimit(v, gpos, size) ==
    IF Add64(v.pos, gpos) > Sub64(size, 1)
    THEN Sub64(Sub64(size, v.pos), 1)
    ELSE gpos

\* view_goto_curs up to `v->grid.pos = gpos'; `pagesize - 1' is unsigned
view_goto_curs(v, gpos, size) ==
    LET last == (v.pagesize - 1 + UNSIGNED_MOD) % UNSIGNED_MOD
        g == IF gpos > 0 THEN CursLimit(v, Min(gpos, last), size) ELSE 0
    IN  [v EXCEPT !.gpos = g]

\* `gpos / v->grid.width' with a cursor off the origin and no grid
DividesByZero(v) == v.gpos # 0 /\ v.width = 0

\* a key or a resize has moved the view to v, or the division has ended
\* the process
Moved(cmd, v) ==
    /\ view' = v
    /\ op' = [name |-> cmd, arg |-> 0, old |-> 0]
    /\ calls' = <<>>
    /\ ret' = IF DividesByZero(v) THEN "SIGFPE" ELSE "0"
    /\ pc' = IF DividesByZero(v) THEN "crashed" ELSE pc
    /\ UNCHANGED <<fsExists, fsPerm, disk, fd, flags, data, name, st_size,
                   prot, vma, hist, obs, trace, exit>>

\* main and the start of view_main: the file opened, view_goto(v, 0) and
\* the first view_resize
VisualOpen ==
    /\ \E createOk, fstatOk, mmapOk \in BOOLEAN, addr \in Addrs :
           bfile_open(436, createOk, fstatOk, mmapOk, addr)
    /\ \E t \in Terminals :
           view' = IF ret' = BFE_SUCCESS
                   THEN [NoView EXCEPT !.width = Grid(t[1], t[2]).width,
                                       !.pagesize = Grid(t[1], t[2]).pagesize]
                   ELSE view
    /\ UNCHANGED <<hist, obs, trace, exit>>

\* KEY_RESIZE: the grid of the new terminal, then view_move_curs(v, 0)
ViewResize ==
    /\ pc = "open"
    /\ \E t \in Terminals :
           Moved("view_resize",
                 view_goto_curs([view EXCEPT
                                     !.width = Grid(t[1], t[2]).width,
                                     !.pagesize = Grid(t[1], t[2]).pagesize],
                                view.gpos, bfile_size(st_size)))

\* KEY_DOWN, KEY_UP, KEY_LEFT, KEY_RIGHT, KEY_NPAGE, KEY_PPAGE
MoveKey ==
    /\ pc = "open"
    /\ \E pos \in {view.width, -view.width, -1, 1, view.pagesize,
                    -view.pagesize} :
           Moved("view_move", view_move(view, pos, bfile_size(st_size)))

\* KEY_HOME, and KEY_END when the page is no longer than the file
GotoKey ==
    /\ pc = "open"
    /\ \E key \in {"HOME", "END"} :
           IF key = "HOME"
           THEN Moved("view_goto", view_goto(view, 0, bfile_size(st_size)))
           ELSE IF view.pagesize <= bfile_size(st_size)
           THEN Moved("view_goto",
                      view_goto(view, bfile_size(st_size) - view.pagesize,
                                bfile_size(st_size)))
           ELSE Moved("view_goto", view)

\* k, j, h, l: view_move_curs; H, L: view_goto_curs
CursKey ==
    /\ pc = "open"
    /\ \E gpos \in {view.gpos - view.width, view.gpos + view.width,
                     view.gpos - 1, view.gpos + 1, 0,
                     (view.pagesize - 1 + UNSIGNED_MOD) % UNSIGNED_MOD} :
           Moved("view_goto_curs",
                 view_goto_curs(view, gpos, bfile_size(st_size)))

\* the values of the hex digits typed
HexKeys == {0, 1}

\* view_poke with the digit that follows: the byte under the cursor gets
\* the two digits
view_poke(key, key2) ==
    LET v == view_goto_curs(view, view.gpos, bfile_size(st_size))
    IN  /\ pc = "open"
        /\ IF IsReadonly(flags)
           THEN Refuse("view_poke", "0") /\ view' = view
           ELSE IF DividesByZero(v)
           THEN /\ view' = v
                /\ op' = [name |-> "view_poke", arg |-> 0, old |-> 0]
                /\ calls' = <<>>
                /\ ret' = "SIGFPE"
                /\ pc' = "crashed"
                /\ UNCHANGED <<fsExists, fsPerm, disk, fd, flags, data, name,
                               st_size, prot, vma>>
           ELSE /\ view' = v
                /\ Write("view_poke", Add64(v.pos, v.gpos),
                         <<16 * key + key2>>)

ViewPoke ==
    /\ \E key, key2 \in HexKeys : view_poke(key, key2)
    /\ UNCHANGED <<hist, obs, trace, exit>>

\* `q': view_close and bfile_close
VisualQuit ==
    /\ pc = "open"
    /\ bfile_close
    /\ UNCHANGED <<hist, obs, trace, exit, view>>

Peek ==
    \E a \in ArgSeqs(AddrToks \cup {2}, 0, 2) \cup {<<0, 1, 0>>} :
        /\ peek(a)
        /\ trace' = [args |-> a, out |-> PeekOut(a),
                     poked |-> IF op.name = "poke" /\ ret = "0"
                                  /\ Len(trace.args) = 2
                               THEN trace.args ELSE <<>>]
        /\ UNCHANGED <<hist, obs, exit, view>>

----------------------------------------------------------------------------
Next ==
    \/ Open
    \/ Truncate
    \/ Poke
    \/ Copy
    \/ Fill
    \/ Close

Spec == Init /\ [][Next]_vars

\* The file manager alone, its truncates observed
NextObserved ==
    \/ Open
    \/ TruncateObserved
    \/ Close

SpecObserved == Init /\ [][NextObserved]_vars

\* The line editor, its commands observed
NextEdit ==
    \/ Open
    \/ PokeObserved
    \/ CopyObserved
    \/ FillObserved
    \/ Hunt
    \/ Close

SpecEdit == Init /\ [][NextEdit]_vars

\* The line editor poking and peeking, its commands traced
NextPoke ==
    \/ Open
    \/ PokeTraced
    \/ Peek
    \/ Close

SpecPoke == Init /\ [][NextPoke]_vars

\* The line editor copying, its commands traced
NextCopy ==
    \/ Open
    \/ CopyTraced
    \/ Close

SpecCopy == Init /\ [][NextCopy]_vars

\* The line editor filling blocks, its commands traced
NextFill ==
    \/ Open
    \/ FillTraced
    \/ Close

SpecFill == Init /\ [][NextFill]_vars

\* The line editor hunting, its commands traced
NextHunt ==
    \/ Open
    \/ HuntTraced
    \/ Close

SpecHunt == Init /\ [][NextHunt]_vars

\* The line editor from its start to its end
NextMain ==
    \/ MainOpen
    \/ PokeCmd
    \/ CopyCmd
    \/ FillCmd
    \/ HuntCmd
    \/ PeekCmd
    \/ TruncateCmd
    \/ Help
    \/ ShowInfo
    \/ Unknown
    \/ Quit

SpecMain == Init /\ [][NextMain]_vars

\* The line editor truncating, its command lines traced
NextTruncate ==
    \/ MainOpen
    \/ DoTruncate
    \/ Quit

SpecTruncate == Init /\ [][NextTruncate]_vars

\* The visual editor from its start to its end
NextVisual ==
    \/ VisualOpen
    \/ ViewResize
    \/ MoveKey
    \/ GotoKey
    \/ CursKey
    \/ ViewPoke
    \/ VisualQuit

SpecVisual == Init /\ [][NextVisual]_vars

\* parse_address applied to the literals
NextParse ==
    \/ ParseAddress

SpecParse == Init /\ [][NextParse]_vars

\* The file manager opened with a size, as the line editor's main does when
\* it is given one
NextSize ==
    \/ OpenSize
    \/ Truncate
    \/ Close

SpecSize == Init /\ [][NextSize]_vars

----------------------------------------------------------------------------
(* Properties *)

Mutating == {"bfile_truncate", "poke", "copy", "fill"}

MappingCalls == {"mremap", "mmap", "munmap", "msync"}

\* the flag was forced on by a failed reversion: the file was opened for
\* writing (f->prot has PROT_WRITE) and is flagged readonly
Broken == IsReadonly(flags) /\ HasWrite(prot)

\* the flag was set by bfile_open
OpenedReadonly == IsReadonly(flags) /\ ~HasWrite(prot)

\* the bytes the file holds at offsets below n are the same in d and e
SamePrefix(d, e, n) ==
    \A i \in 1..n : i <= Len(d) => (i <= Len(e) /\ e[i] = d[i])

\* C1: while the file is open, a size above 0 comes with a live mapping of
\* exactly bfile_size(f) bytes at f->data, and a size of 0 with no mapping
\* and f->data == MAP_FAILED.
C1_MappingMatchesSize ==
    pc = "open" =>
        IF bfile_size(st_size) > 0
        THEN vma # NoVma /\ data = vma.addr /\ vma.len = bfile_size(st_size)
        ELSE vma = NoVma /\ data = MAP_FAILED

\* C2: after every return of bfile_truncate, whatever its result, the length
\* of the live mapping equals the on-disk length of the file.
C2_MappingEqualsDisk ==
    (pc = "open" /\ op.name = "bfile_truncate") => vma.len = Len(disk)

\* C3: a bfile_truncate that returns SYNC leaves the file as it was before
\* the call: on-disk length, recorded size, mapping length, readonly flag
\* and every byte below the old size.
C3_SyncLeavesFileAsBefore ==
    [][(op'.name = "bfile_truncate" /\ ret' = BFE_SYNC) =>
        /\ Len(disk') = Len(disk)
        /\ st_size' = st_size
        /\ vma'.len = vma.len
        /\ flags' = flags
        /\ SamePrefix(disk, disk', bfile_size(st_size))]_vars

\* what a command answers to arguments it cannot use
ArgumentErrors ==
    {"Bad address", "Bad value", "Bad destination", "Bad source",
     "Bad length", "Missing address", "Missing data", "Missing length",
     "Missing source", "Missing destination", "Too many arguments",
     "Block is not multiple of length", "behind file", "overflows",
     "Source overflows", "Destination overflows", "end marker overflows"}

\* C4: a bfile_truncate that returns IO sets the readonly flag, and from then
\* on until close the flag stays set and every truncate, Poke, Copy and Fill
\* refuses with READONLY and changes no byte and no size.  (A command that
\* complains about its arguments instead is not held against the claim.)
C4_BrokenFileRefusesMutation ==
    [][/\ (op'.name = "bfile_truncate" /\ ret' = BFE_IO) => IsReadonly(flags')
       /\ (pc = "open" /\ Broken /\ op'.name \in Mutating) =>
            /\ ret' \in {BFE_READONLY} \cup ArgumentErrors
            /\ IsReadonly(flags')
            /\ disk' = disk
            /\ st_size' = st_size]_vars

\* C5: on a file opened read-only every mutating operation (Poke, Copy, Fill,
\* truncate) fails with READONLY and leaves the bytes and the size unchanged.
\* (A command that complains about its arguments instead is not held
\* against the claim.)
C5_ReadonlyOpenRefusesMutation ==
    [][(pc = "open" /\ OpenedReadonly /\ op'.name \in Mutating) =>
        /\ ret' \in {BFE_READONLY} \cup ArgumentErrors
        /\ disk' = disk
        /\ st_size' = st_size]_vars

\* C6: a bfile_truncate that returns READONLY or TRUNCATE has changed nothing
\* (on-disk length and bytes, recorded size, mapping address and length,
\* flags) and has issued no mremap, mmap, munmap or msync.
C6_RefusedTruncateChangesNothing ==
    [][(op'.name = "bfile_truncate"
            /\ ret' \in {BFE_READONLY, BFE_TRUNCATE}) =>
        /\ UNCHANGED <<disk, st_size, data, vma, flags, prot, fd>>
        /\ \A k \in 1..Len(calls') : calls'[k] \notin MappingCalls]_vars

C6_Witness ==
    op.name = "bfile_truncate" /\ ret = BFE_TRUNCATE /\ op.arg # op.old
        /\ calls = <<"ftruncate">>

\* C7 as stated: on every open file, bfile_truncate to the current size
\* returns success, issues no system call and changes no field.
C7_SameSizeSucceeds ==
    [][(pc = "open" /\ op'.name = "bfile_truncate"
            /\ op'.arg = bfile_size(st_size)) =>
        /\ ret' = BFE_SUCCESS
        /\ calls' = <<>>
        /\ UNCHANGED <<disk, st_size, data, vma, flags, prot, fd>>]_vars

\* C7 as amended: on every open file, bfile_truncate to the current size
\* issues no system call and changes no field; it returns success when the
\* readonly flag is clear and READONLY when it is set.
C7_SameSizeIsNoOp ==
    [][(pc = "open" /\ op'.name = "bfile_truncate"
            /\ op'.arg = bfile_size(st_size)) =>
        /\ ret' = (IF IsReadonly(flags) THEN BFE_READONLY ELSE BFE_SUCCESS)
        /\ calls' = <<>>
        /\ UNCHANGED <<disk, st_size, data, vma, flags, prot, fd>>]_vars

C7_Witness ==
    /\ pc = "open" /\ op.name = "bfile_truncate"
    /\ op.arg = op.old /\ op.old > 0
    /\ ret = BFE_SUCCESS /\ calls = <<>>

\* C8: when bfile_truncate(f, newSize) returns success, bfile_size(f) is
\* newSize, every byte the file holds below min(oldSize, newSize) keeps its
\* value, and on growth every byte in [oldSize, newSize) is zero.
C8_SuccessfulResize ==
    [][(pc = "open" /\ op'.name = "bfile_truncate" /\ ret' = BFE_SUCCESS) =>
        /\ bfile_size(st_size') = op'.arg
        /\ SamePrefix(disk, disk', Min(bfile_size(st_size), op'.arg))
        /\ \A i \in (bfile_size(st_size) + 1)..op'.arg :
              i <= Len(disk') /\ disk'[i] = 0]_vars

C8_Witness ==
    /\ pc = "open" /\ op.name = "bfile_truncate" /\ ret = BFE_SUCCESS
    /\ 0 < op.old /\ op.old < op.arg
    /\ st_size = op.arg /\ Len(disk) = op.arg
    /\ disk[1] = 1 /\ disk[op.arg] = 0

\* C9: when truncate(size1), truncate(size2) and truncate(size1) run in this
\* order and all succeed, every byte the file held below min(size1, size2)
\* before the second call has the same value after the third.
C9_RoundTripKeepsPrefix ==
    (Len(hist) = 3 /\ hist[1].size = hist[3].size) =>
        SamePrefix(hist[2].before, disk, Min(hist[1].size, hist[2].size))

C9_Witness ==
    /\ Len(hist) = 3 /\ hist[1].size = hist[3].size
    /\ op.name = "bfile_truncate" /\ ret = BFE_SUCCESS
    /\ 1 < hist[2].size /\ hist[2].size < hist[1].size
    /\ Len(hist[2].before) = hist[1].size
    /\ hist[2].before[1] = 1 /\ hist[2].before[2] = 1
    /\ disk[1] = 1 /\ disk[2] = 1

\* C10: a bfile_truncate that returns ACCESS (only the final fstat failed)
\* leaves the resize applied: on-disk length, mapping length and
\* bfile_size(f) are all newSize, and the readonly flag is not set.
C10_FstatFailureKeepsResize ==
    (pc = "open" /\ op.name = "bfile_truncate" /\ ret = BFE_ACCESS) =>
        /\ Len(disk) = op.arg
        /\ vma.len = op.arg
        /\ bfile_size(st_size) = op.arg
        /\ ~IsReadonly(flags)

\* C11: bfile_close on a Mapped File that is not open (only initialised, or
\* closed before) issues no munmap and no close; on an open file it issues
\* munmap when a mapping is present and close exactly once; either way it
\* leaves fd == -1, data == MAP_FAILED, name == NULL and no live mapping.
C11_CloseLeavesUnopened ==
    [][op'.name = "bfile_close" =>
        /\ fd' = -1 /\ data' = MAP_FAILED /\ name' = NULL
        /\ vma' = NoVma
        /\ calls' = IF pc = "open"
                    THEN (IF vma # NoVma THEN <<"munmap">> ELSE <<>>)
                         \o <<"close">>
                    ELSE <<>>]_vars

\* C12: while the file is open, a set readonly flag comes with a live
\* mapping that is not writable.
C12_ReadonlyMappingNotWritable ==
    (pc = "open" /\ IsReadonly(flags) /\ vma # NoVma) => ~HasWrite(vma.prot)

\* C13: bfile_open with creation permissions and no size asked for, on a
\* name that does not exist, returns OPEN, creates no file and leaves the
\* Mapped File unopened.  (A call that fails with ACCESS instead is not held
\* against the claim.)
C13_MissingNameIsNotCreated ==
    [][(op'.name = "bfile_open" /\ op'.arg # 0 /\ ~fsExists) =>
        /\ ret' \in {BFE_OPEN, BFE_ACCESS}
        /\ ~fsExists'
        /\ fd' = -1 /\ data' = MAP_FAILED /\ pc' # "open"]_vars

\* C14: bfile_open on an existing file of length 0 that it can open and
\* stat returns EMPTY, not success, and closes the descriptor it acquired.
C14_EmptyFileIsRefused ==
    [][(op'.name = "bfile_open" /\ fsExists /\ Len(disk) = 0
            /\ ret' \notin {BFE_OPEN, BFE_ACCESS}) =>
        /\ ret' = BFE_EMPTY
        /\ fd' = -1 /\ pc' # "open"
        /\ calls'[Len(calls')] = "close"]_vars

\* C15: bfile_open with creation permissions and a size above 0 returns
\* RESIZE on an existing non-empty file it can open and stat, and leaves
\* that file's length and bytes as they were; when it succeeds (the name was
\* missing or the file empty) the file and the mapping are exactly the size
\* asked for.
C15_SizedOpen ==
    [][(op'.name = "bfile_open" /\ op'.old > 0) =>
        /\ (fsExists /\ Len(disk) # 0) =>
              /\ ret' \in {BFE_RESIZE, BFE_OPEN, BFE_ACCESS}
              /\ disk' = disk
        /\ ret' = BFE_SUCCESS =>
              /\ Len(disk') = op'.old
              /\ bfile_size(st_size') = op'.old
              /\ vma' # NoVma /\ data' = vma'.addr /\ vma'.len = op'.old]_vars

C15_Witness ==
    /\ op.name = "bfile_open" /\ op.old > 0 /\ ret = BFE_RESIZE
    /\ fsExists /\ Len(disk) > 0 /\ disk[1] = 1 /\ pc = "failed"

\* the number of times the call s occurs in the call sequence cs
Count(cs, s) == Cardinality({k \in 1..Len(cs) : cs[k] = s})

\* C16: a bfile_open that fails (OPEN, ACCESS, MAP) has closed the descriptor
\* it acquired, exactly once and as its last call, has unlinked the file it
\* created, so that a name that was missing is missing again, and has left
\* fd, data, flags and name of the Mapped File as they were.
C16_FailedOpenCleansUp ==
    [][(op'.name = "bfile_open" /\ ret' # BFE_SUCCESS) =>
        /\ UNCHANGED <<fd, data, flags, name>>
        /\ Count(calls', "close") = (IF ret' = BFE_OPEN THEN 0 ELSE 1)
        /\ ret' # BFE_OPEN => calls'[Len(calls')] = "close"
        /\ Count(calls', "unlink")
              = (IF ~fsExists /\ ret' # BFE_OPEN THEN 1 ELSE 0)
        /\ fsExists' = fsExists]_vars

C16_Witness ==
    /\ op.name = "bfile_open" /\ ret = BFE_ACCESS /\ pc = "failed"
    /\ calls = <<"open", "open", "open", "fstat", "unlink", "close">>
    /\ ~fsExists /\ fd = -1 /\ name = NULL

\* C17: after a successful bfile_open(f, name, mode) the readonly flag is set
\* exactly when mode is 0 or the read-write open failed and the read-only
\* one succeeded, and the protection is PROT_READ when the flag is set and
\* PROT_READ | PROT_WRITE otherwise, on f->prot and on the mapping.  With
\* mode 0 the file is opened read-only (one open, which a file that grants
\* reading only passes) and never created: a missing name gives OPEN.
C17_ReadonlyFlagAndProtection ==
    [][(op'.name = "bfile_open" /\ op'.old = 0) =>
        LET rw == fsExists /\ fsPerm = "rw"
            ro == fsExists /\ fsPerm \in {"rw", "ro"}
            want == IF IsReadonly(flags') THEN PROT_READ
                    ELSE PROT_READ + PROT_WRITE
        IN  /\ ret' = BFE_SUCCESS =>
                  /\ IsReadonly(flags') <=> (op'.arg = 0 \/ (~rw /\ ro))
                  /\ prot' = want
                  /\ vma' # NoVma => vma'.prot = want
            /\ op'.arg = 0 =>
                  /\ Count(calls', "open") = 1
                  /\ fsExists' = fsExists
                  /\ ~fsExists => ret' = BFE_OPEN
                  /\ ro => ret' # BFE_OPEN]_vars

C17_Witness ==
    /\ op.name = "bfile_open" /\ op.arg # 0 /\ op.old = 0
    /\ ret = BFE_SUCCESS /\ pc = "open"
    /\ fsPerm = "ro" /\ IsReadonly(flags)
    /\ vma # NoVma /\ vma.prot = PROT_READ /\ calls[2] = "open"

Commands == {"poke", "copy", "fill", "hunt"}

\* C18: whatever the addresses and lengths, wrapping sums included, Copy,
\* Fill, Hunt and Poke load and store only at offsets below the size of the
\* file, and a command that reports an error has touched nothing.
C18_AccessStaysInFile ==
    [][op'.name \in Commands =>
        /\ obs'.top <= bfile_size(st_size)
        /\ ret' \in {BFE_READONLY} \cup ArgumentErrors =>
              disk' = disk /\ obs'.top = 0]_vars

\* C19: a Poke, Copy or Fill that returns an error, whatever the reason,
\* has changed no byte of the file and not its size.
C19_ErrorsChangeNothing ==
    [][(op'.name \in {"poke", "copy", "fill"}
            /\ ret' \in {BFE_READONLY} \cup ArgumentErrors) =>
        /\ disk' = disk
        /\ st_size' = st_size
        /\ UNCHANGED <<vma, data, flags>>]_vars

C19_Witness ==
    /\ op.name = "poke" /\ ret = "Bad value" /\ pc = "open"
    /\ ~IsReadonly(flags) /\ Len(disk) = MaxSize /\ disk[1] = 0
    /\ vma.len = MaxSize

\* C20: Poke, Fill and Hunt check the range [addr, addr + len) against the
\* size of the file like this: when addr >= size they report
\* addr - size + 1 bytes behind the file; otherwise, when
\* addr + len - 1 >= size, they report an overflow by addr + len - size
\* bytes; otherwise the check passes.
C20_RangeRule ==
    [][(op'.name \in {"poke", "fill", "hunt"} /\ obs'.kind # "") =>
        LET size == bfile_size(st_size)
            addr == obs'.addr
            len == obs'.len
        IN  IF addr >= size
            THEN obs'.kind = "behind" /\ obs'.n = addr - size + 1
            ELSE IF addr + len - 1 >= size
            THEN obs'.kind = "overflow" /\ obs'.n = addr + len - size
            ELSE obs'.kind = "pass"]_vars

\* the width the claims give a value: the smallest of 1, 2, 4, 8 bytes that
\* holds it
Width(v) ==
    IF v < 256 THEN 1
    ELSE IF v < 65536 THEN 2
    ELSE IF v \div 65536 < 65536 THEN 4
    ELSE 8

RECURSIVE Widths(_, _)
\* the sum of the widths of the first k values
Widths(vals, k) ==
    IF k = 0 THEN 0 ELSE Widths(vals, k - 1) + Width(vals[k])

RECURSIVE Decode(_)
\* the number a sequence of bytes stands for, least-significant byte first
Decode(bs) == IF bs = <<>> THEN 0 ELSE Head(bs) + 256 * Decode(Tail(bs))

\* C22: when Poke(addr, v) has succeeded, a Peek(addr, Width(v)) that
\* follows it prints Width(v) bytes, none of them a gap marker, that
\* decode, least-significant byte first, to v.
C22_PokePeekRoundTrip ==
    (op.name = "peek" /\ trace.poked # <<>>
        /\ trace.args = <<trace.poked[1], Width(trace.poked[2])>>) =>
        /\ ret = "0"
        /\ Len(trace.out) = Width(trace.poked[2])
        /\ \A i \in 1..Len(trace.out) : trace.out[i] # Gap
        /\ Decode(trace.out) = trace.poked[2]

C22_Witness ==
    /\ op.name = "peek" /\ ret = "0" /\ pc = "open"
    /\ trace.poked = <<1, 256>> /\ trace.args = <<1, 2>>
    /\ trace.out = <<0, 1>>

\* C23: a Copy(dest, src, length) that passes validation, whether the two
\* ranges overlap or not, leaves in [dest, dest + length) the bytes that
\* [src, src + length) held before the call and every byte outside
\* [dest, dest + length) as it was.
C23_CopyAsThroughBuffer ==
    [][(op'.name = "copy" /\ ret' \notin ArgumentErrors) =>
        LET dest == trace'.args[1]
            src == trace'.args[2]
            length == trace'.args[3]
        IN  /\ ret' = "0"
            /\ Len(disk') = Len(disk)
            /\ \A x \in 1..Len(disk) :
                  IF x - 1 >= dest /\ x - 1 < dest + length
                  THEN disk'[x] = disk[x - dest + src]
                  ELSE disk'[x] = disk[x]]_vars

\* the tokens are all numbers
Numbers(args) == \A i \in 1..Len(args) : args[i] # Bad

\* C24: for every addr, every length and every non-empty pattern, Fill fails
\* with the not-a-multiple error when length is no multiple of the byte
\* length of the pattern, in bounds or not, and changes no byte.
C24_FillNotMultiple ==
    [][op'.name = "fill" =>
        LET args == trace'.args
            pattern == SubSeq(args, 3, Len(args))
        IN  (Len(args) >= 3 /\ Numbers(args)
                /\ args[2] % Widths(pattern, Len(pattern)) # 0) =>
                /\ ret' = "Block is not multiple of length"
                /\ disk' = disk
                /\ st_size' = st_size]_vars

C24_Witness ==
    /\ op.name = "fill" /\ ret = "Block is not multiple of length"
    /\ trace.args = <<MaxSize, 1, 256>>
    /\ pc = "open" /\ Len(disk) = 2

\* C25: after a successful Fill(addr, length, pattern), with n the byte
\* length of the pattern, the byte at addr + i is pattern[i mod n] for every
\* i in [0, length), and every byte outside [addr, addr + length) and the
\* length of the file are as before (a length of 0 writes nothing).
C25_FillRepeatsPattern ==
    [][(op'.name = "fill" /\ ret' = "0") =>
        LET args == trace'.args
            pattern == Encode(SubSeq(args, 3, Len(args)))
        IN  /\ Len(disk') = Len(disk)
            /\ \A x \in 1..Len(disk) :
                  IF x - 1 >= args[1] /\ x - 1 < args[1] + args[2]
                  THEN disk'[x]
                         = pattern[((x - 1 - args[1]) % Len(pattern)) + 1]
                  ELSE disk'[x] = disk[x]
            /\ args[1] + args[2] <= Len(disk)]_vars

C25_Witness ==
    /\ op.name = "fill" /\ ret = "0" /\ pc = "open"
    /\ trace.args = <<1, 2, 1, 0>>
    /\ disk = <<0, 1, 0>>

\* C26: for a window [start, start + length) inside the file and a non-empty
\* needle, Hunt returns the smallest offset p with start <= p,
\* p + |needle| <= start + length and the bytes at [p, p + |needle|) equal to
\* the needle, and not-found when there is none; Hunt changes no byte.
C26_HuntFindsFirst ==
    [][op'.name = "hunt" =>
        LET h == trace'.args[1]
            needle == Encode(trace'.args[2])
            size == bfile_size(st_size)
            start == h[1]
            length == IF Len(h) = 2 THEN h[2] ELSE size - start
            E == {p \in start..(start + length - Len(needle)) :
                    \A j \in 1..Len(needle) : disk[p + j] = needle[j]}
        IN  /\ disk' = disk
            /\ (Len(h) >= 1 /\ Numbers(h) /\ Numbers(trace'.args[2])
                    /\ needle # <<>> /\ start <= size
                    /\ start + length <= size) =>
                  IF E = {} THEN ret' = "not found"
                  ELSE /\ ret' = "0"
                       /\ op'.arg \in E
                       /\ \A q \in E : op'.arg <= q]_vars

C26_Witness ==
    /\ op.name = "hunt" /\ ret = "0" /\ op.arg = 1 /\ pc = "open"
    /\ trace.args = <<<<0, MaxSize>>, <<1>>>>
    /\ Len(disk) = MaxSize /\ disk[1] = 0 /\ disk[2] = 1 /\ disk[3] = 1

\* C27: Peek with a start address and a length in [1, 256] (16 without one)
\* never fails, whatever the address, and never changes the file: it emits
\* exactly length entries, entry i the byte at start + i when start + i is
\* below the size of the file and the gap marker otherwise, so a file of
\* size 0, which has no mapping, yields gap markers only.
C27_PeekEntries ==
    [][op'.name = "peek" =>
        LET args == trace'.args
            start == args[1]
            length == IF Len(args) = 2 THEN args[2] ELSE PEEK_DEFAULT
        IN  /\ disk' = disk
            /\ st_size' = st_size
            /\ (Len(args) \in {1, 2} /\ Numbers(args)
                    /\ length \in 1..PEEK_MAX) =>
                  /\ ret' = "0"
                  /\ Len(trace'.out) = length
                  /\ \A i \in 0..(length - 1) :
                        trace'.out[i + 1] =
                            IF start + i < Len(disk) THEN disk[start + i + 1]
                            ELSE Gap
                  /\ data = MAP_FAILED =>
                        \A i \in 1..length : trace'.out[i] = Gap]_vars

C27_Witness ==
    /\ op.name = "peek" /\ ret = "0" /\ pc = "open"
    /\ trace.args = <<1>> /\ Len(disk) = 2
    /\ Len(trace.out) = PEEK_DEFAULT
    /\ trace.out[1] = disk[2] /\ trace.out[2] = Gap

\* the line up to its first space
RECURSIVE Leading(_)
Leading(line) ==
    IF line = <<>> \/ Head(line) = " " THEN <<>>
    ELSE <<Head(line)>> \o Leading(Tail(line))

\* C28: a truncate command whose size is followed by garbage, such as
\* `t 10 wut', is taken for valid: the file is truncated to the leading size.
C28_TruncateIgnoresGarbage ==
    [][(op'.name \in {"do_truncate", "bfile_truncate"}
            /\ Leading(trace'.args) # trace'.args
            /\ parse_address(Leading(trace'.args)) # Bad) =>
        /\ op'.name = "bfile_truncate"
        /\ op'.arg = parse_address(Leading(trace'.args))]_vars

\* the commands of the loop
MainCommands ==
    {"poke", "copy", "fill", "hunt", "peek", "do_truncate", "bfile_truncate",
     "help", "bfile_showinfo", "parse"}

\* C29: no failure of a command ends the loop: after a command that returns
\* an error the next line is read; the process ends only on `q' or the end
\* of the input, with the file closed and exit code 0; the exit code is 1
\* only for a usage error or a failed open, and then no command is executed.
C29_OnlyQuitEndsTheLoop ==
    [][/\ (op'.name \in MainCommands /\ ret' \notin {"0", "SIGSEGV"}) =>
             pc' = "open" /\ exit' = NoExit /\ fd' = fd
       /\ (pc = "open" /\ pc' # "open") =>
             /\ op'.name = "bfile_close"
             /\ exit' = 0 /\ fd' = -1 /\ data' = MAP_FAILED
       /\ (exit' = 0) => pc' = "closed"
       /\ (exit' = 1 /\ exit # 1) => pc = "init" /\ pc' \in {"init", "failed"}
       /\ (exit = 1) => op'.name \notin MainCommands]_vars

\* C30: bfile_truncate to another size on a writable file issues ftruncate
\* first, and no mapping call when it fails; after it, from size 0 to a size
\* above 0 the mapping is made with mmap and not with mremap; to size 0 the
\* mapping is released with munmap, data is absent and no msync is issued;
\* otherwise the mapping is resized with mremap; msync is issued only after
\* the mapping call has succeeded.
C30_TruncateCallOrder ==
    [][(op'.name = "bfile_truncate" /\ ~IsReadonly(flags)
            /\ op'.arg # bfile_size(st_size)) =>
        LET oldSize == bfile_size(st_size)
            newSize == op'.arg
        IN  /\ calls' # <<>> /\ calls'[1] = "ftruncate"
            /\ \A k \in 2..Len(calls') : calls'[k] # "ftruncate"
            /\ ret' = BFE_TRUNCATE =>
                  calls' = <<"ftruncate">> /\ data' = data /\ vma' = vma
            /\ ret' # BFE_TRUNCATE =>
                  /\ Len(calls') >= 2
                  /\ IF newSize = 0
                     THEN /\ calls'[2] = "munmap"
                          /\ data' = MAP_FAILED
                          /\ Count(calls', "msync") = 0
                          /\ Count(calls', "mmap") = 0
                          /\ Count(calls', "mremap") = 0
                     ELSE IF oldSize = 0
                     THEN calls'[2] = "mmap"
                     ELSE calls'[2] = "mremap" /\ Count(calls', "mmap") = 0
            /\ \A k \in 1..Len(calls') :
                  calls'[k] = "msync" =>
                      k = 3 /\ calls'[2] \in {"mmap", "mremap"}
                            /\ ret' # BFE_MAP]_vars

C30_Witness ==
    /\ op.name = "bfile_truncate" /\ op.old = 0 /\ op.arg = MaxSize
    /\ ret = BFE_SUCCESS
    /\ calls = <<"ftruncate", "mmap", "msync", "fstat">>
    /\ data # MAP_FAILED /\ vma.len = MaxSize

\* C31: a bfile_truncate that returns MAP, the mapping call having failed
\* after ftruncate succeeded, leaves the state as it was: the on-disk length,
\* the recorded size, the length of the mapping and the bytes of the file.
C31_MapFailureChangesNothing ==
    [][(op'.name = "bfile_truncate" /\ ret' = BFE_MAP) =>
        /\ Len(disk') = Len(disk)
        /\ disk' = disk
        /\ st_size' = st_size
        /\ vma'.len = vma.len]_vars

\* C32: Hunt with a window that ends behind the end of the file, or with a
\* needle that reaches behind it from start, ends with the plain not-found
\* result, no error report and no crash; with an address and no value it
\* reports missing data; without a length it finds nothing outside
\* [start, size).
C32_HuntBehindTheEnd ==
    [][op'.name = "hunt" =>
        LET h == trace'.args[1]
            vals == trace'.args[2]
            needle == Encode(vals)
            size == bfile_size(st_size)
            start == h[1]
            length == IF Len(h) = 2 THEN h[2] ELSE Max(size - start, 0)
        IN  (Len(h) >= 1 /\ Numbers(h) /\ Numbers(vals)) =>
              /\ vals = <<>> => ret' = "Missing data"
              /\ (vals # <<>> /\ (start + length > size
                                   \/ start + Len(needle) > size)) =>
                    ret' = "not found"
              /\ (Len(h) = 1 /\ ret' = "0") =>
                    start <= op'.arg /\ op'.arg + Len(needle) <= size]_vars

\* what a character is worth as a digit, either case
DigitValue ==
    [c \in {"0", "1", "2", "3", "4", "5", "6", "7", "8", "9",
            "a", "b", "c", "d", "e", "f", "A", "B", "C", "D", "E", "F"} |->
        CASE c \in {"a", "A"} -> 10 [] c \in {"b", "B"} -> 11
          [] c \in {"c", "C"} -> 12 [] c \in {"d", "D"} -> 13
          [] c \in {"e", "E"} -> 14 [] c \in {"f", "F"} -> 15
          [] c = "0" -> 0 [] c = "1" -> 1 [] c = "2" -> 2 [] c = "3" -> 3
          [] c = "4" -> 4 [] c = "5" -> 5 [] c = "6" -> 6 [] c = "7" -> 7
          [] c = "8" -> 8 [] c = "9" -> 9]

BaseOf(str) ==
    IF str = <<>> THEN 10
    ELSE IF Head(str) = "%" THEN 2
    ELSE IF Head(str) = "o" THEN 8
    ELSE IF Head(str) = "$" THEN 16
    ELSE 10

DigitsOf(str) ==
    IF str # <<>> /\ Head(str) \in {"%", "o", "$"} THEN Tail(str) ELSE str

\* every character is a digit of the base
ValidDigits(ds, base) ==
    \A k \in 1..Len(ds) :
        ds[k] \in DOMAIN DigitValue /\ DigitValue[ds[k]] < base

\* the value of a digit string, its last digit the lowest
RECURSIVE NumericValue(_, _)
NumericValue(ds, base) ==
    IF ds = <<>> THEN 0
    ELSE DigitValue[ds[Len(ds)]]
             + base * NumericValue(SubSeq(ds, 1, Len(ds) - 1), base)

\* C33: parse_address accepts a literal exactly when it is not empty and is
\* an optional prefix (% binary, o octal, $ hexadecimal, none decimal)
\* followed by digits of that base, hexadecimal digits in either case; a
\* literal it rejects leaves address as it was, and one it accepts leaves
\* the value of the digits in that base, as an unsigned 64-bit number.
C33_ParseAddress ==
    op.name = "parse_address" =>
        LET str == trace.args
            accepted == str # <<>> /\ ValidDigits(DigitsOf(str), BaseOf(str))
        IN  /\ ret = "0" <=> accepted
            /\ ret # "0" => ret = "1" /\ trace.out = trace.poked
            /\ ret = "0" =>
                  trace.out = <<NumericValue(DigitsOf(str), BaseOf(str))
                                    % U64_MOD>>

C33_Witness ==
    /\ op.name = "parse_address" /\ ret = "0"
    /\ trace.args = <<"$", "a", "F">> /\ trace.out = <<175>>
    /\ trace.poked = <<5>>

\* C34: in the visual editor, on every file bfile_open accepts, one of length
\* 0 included, and after any keys and resizes, the byte view_poke writes is
\* at the offset pos + grid.pos, which is below the size of the file and
\* inside the live mapping, and view_poke writes nothing when the file is
\* read-only.
C34_ViewPokeStaysInFile ==
    [][op'.name = "view_poke" =>
        IF IsReadonly(flags)
        THEN disk' = disk /\ ret' = "0"
        ELSE LET off == view'.pos + view'.gpos
             IN  /\ off < bfile_size(st_size)
                 /\ Readable(off)
                 /\ ret' = "0"
                 /\ \A i \in 1..Len(disk) :
                       i - 1 # off => disk'[i] = disk[i]]_vars
====
